---- MODULE Spec2Model ----
(***************************************************************************)
(* A model of app_cloudrun.py: the /analyze handler (validation, temp-file *)
(* store, PDF text extraction, model call, response normalisation, and the *)
(* finally-block cleanup), one handler instance per request.               *)
(*                                                                         *)
(* Text is a sequence of one-character strings, so that len(), slicing,    *)
(* lower()/upper(), startswith()/endswith() and strip() are computed.      *)
(* Python's None and every other value are records with a tag field "t".   *)
(***************************************************************************)
EXTENDS Integers, Sequences, FiniteSets, TLC

VARIABLES pc, request, filepath, fs, clock, claim_text, outcome, response,
          steps, log

vars == <<pc, request, filepath, fs, clock, claim_text, outcome, response,
          steps, log>>

(***************************************************************************)
(* Bounds of the model and constants of the program.                       *)
(***************************************************************************)
\* The clock readings datetime.now() can return are 0..MaxClock.
MaxClock == 1
\* How many characters past the reasoning limit the longest sample text is.
MaxExcess == 1
\* reasoning[:1000]
ReasoningLimit == 1000
\* max(0, min(100, risk_score))
MinScore == 0
MaxScore == 100
\* parsed.get('risk_score', 50) and the fallback verdicts
DefaultScore == 50
\* CPython formats int()'s ValueError with %.200R
ReprLimit == 200

Requests == {"r1", "r2"}

(***************************************************************************)
(* Text.                                                                   *)
(***************************************************************************)
\* The text of a literal, as a sequence of characters.
Str(s) == [i \in 1..Len(s) |-> SubSeq(s, i, i)]

\* s[:n]
Take(s, n) == SubSeq(s, 1, IF Len(s) < n THEN Len(s) ELSE n)

\* n copies of the character c
Rep(c, n) == [i \in 1..n |-> c]

LowerAlphabet == Str("abcdefghijklmnopqrstuvwxyz")
UpperAlphabet == Str("ABCDEFGHIJKLMNOPQRSTUVWXYZ")
Digits == Str("0123456789")

IndexIn(c, alphabet) ==
    IF \E i \in 1..Len(alphabet) : alphabet[i] = c
    THEN CHOOSE i \in 1..Len(alphabet) : alphabet[i] = c
    ELSE 0

\* str.lower() and str.upper(), on the ASCII letters
Lower(s) ==
    [i \in 1..Len(s) |->
        IF IndexIn(s[i], UpperAlphabet) > 0
        THEN LowerAlphabet[IndexIn(s[i], UpperAlphabet)] ELSE s[i]]

Upper(s) ==
    [i \in 1..Len(s) |->
        IF IndexIn(s[i], LowerAlphabet) > 0
        THEN UpperAlphabet[IndexIn(s[i], LowerAlphabet)] ELSE s[i]]

StartsWith(s, p) == Len(s) >= Len(p) /\ SubSeq(s, 1, Len(p)) = p

EndsWith(s, p) ==
    Len(s) >= Len(p) /\ SubSeq(s, Len(s) - Len(p) + 1, Len(s)) = p

Whitespace == {" ", "\n", "\t"}

IsSpace(c) == c \in Whitespace

\* s.strip(chars): drop the leading and the trailing elements that are in blanks
StripBy(s, blanks) ==
    IF \A i \in 1..Len(s) : s[i] \in blanks THEN <<>>
    ELSE SubSeq(s,
                CHOOSE i \in 1..Len(s) :
                    s[i] \notin blanks /\ \A j \in 1..(i - 1) : s[j] \in blanks,
                CHOOSE i \in 1..Len(s) :
                    s[i] \notin blanks /\ \A j \in (i + 1)..Len(s) : s[j] \in blanks)

\* str.strip()
Strip(s) == StripBy(s, Whitespace)

\* str(n) of a natural number below 1000, and of an integer
RECURSIVE NatStr(_)
NatStr(n) == IF n < 10 THEN <<Digits[n + 1]>>
             ELSE NatStr(n \div 10) \o <<Digits[(n % 10) + 1]>>

IntStr(n) == IF n < 0 THEN <<"-">> \o NatStr(-n) ELSE NatStr(n)

(***************************************************************************)
(* Values.  None is Python's None.                                         *)
(***************************************************************************)
None == [t |-> "None"]
IntV(n) == [t |-> "int", v |-> n]
\* A float, held in tenths: FloatV(759) is 75.9
FloatV(tenths) == [t |-> "float", v |-> tenths]
StrV(s) == [t |-> "str", v |-> s]
BoolV(b) == [t |-> "bool", v |-> b]
ListV(items) == [t |-> "list", v |-> items]
\* A dict: a function from its keys to their values
DictV(f) == [t |-> "dict", v |-> f]

\* type(x).__name__
TypeName(x) == IF x.t = "None" THEN Str("NoneType") ELSE Str(x.t)

Quoted(s) == <<"'">> \o s \o <<"'">>

\* An exception, with str(e)
Exc(type, msg) == [t |-> "exception", type |-> type, msg |-> msg]
Returned(x) == [t |-> "return", v |-> x]
Raised(e) == [t |-> "raise", exc |-> e]

\* x.<name> on a value that has no such attribute
NoAttribute(x, name) ==
    Exc("AttributeError",
        Quoted(TypeName(x)) \o Str(" object has no attribute ") \o Quoted(Str(name)))

\* The digits of a decimal literal, most significant first, as a number
RECURSIVE DigitsValue(_)
DigitsValue(s) ==
    IF s = <<>> THEN 0
    ELSE 10 * DigitsValue(SubSeq(s, 1, Len(s) - 1)) + (IndexIn(s[Len(s)], Digits) - 1)

IsDigits(s) == s # <<>> /\ \A i \in 1..Len(s) : IndexIn(s[i], Digits) > 0

\* int(x): an int as it is, a bool as 0 or 1, a float truncated toward zero,
\* a string parsed as a signed decimal literal; ValueError or TypeError otherwise.
PyInt(x) ==
    CASE x.t = "int" -> Returned(x.v)
      [] x.t = "bool" -> Returned(IF x.v THEN 1 ELSE 0)
      [] x.t = "float" -> Returned(IF x.v < 0 THEN -((-x.v) \div 10) ELSE x.v \div 10)
      [] x.t = "str" ->
            LET s == Strip(x.v)
                signed == s # <<>> /\ s[1] \in {"+", "-"}
                body == IF signed THEN Tail(s) ELSE s
            IN  IF IsDigits(body)
                THEN Returned(IF signed /\ s[1] = "-" THEN -DigitsValue(body)
                              ELSE DigitsValue(body))
                ELSE Raised(Exc("ValueError",
                         Str("invalid literal for int() with base 10: ")
                             \o Take(Quoted(x.v), ReprLimit)))
      [] OTHER ->
            Raised(Exc("TypeError",
                Str("int() argument must be a string, a bytes-like object or a real number, not ")
                    \o Quoted(TypeName(x))))

\* str(x)
PyStr(x) ==
    CASE x.t = "str" -> x.v
      [] x.t = "int" -> IntStr(x.v)
      [] x.t = "bool" -> IF x.v THEN Str("True") ELSE Str("False")
      [] x.t = "None" -> Str("None")
      [] x.t = "float" ->
            (IF x.v < 0 THEN <<"-">> ELSE <<>>)
                \o NatStr((IF x.v < 0 THEN -x.v ELSE x.v) \div 10) \o <<".">>
                \o NatStr((IF x.v < 0 THEN -x.v ELSE x.v) % 10)
      [] x.t = "list" -> Str("[]")
      [] OTHER -> Str("{}")

\* d.get(key, default) on a dict
Get(d, key, default) == IF key \in DOMAIN d.v THEN d.v[key] ELSE default

(***************************************************************************)
(* The model's reply.  response.text is None or a text, held as a sequence *)
(* of tokens: whitespace, a markdown code fence, a word of prose, or the   *)
(* serialisation of one JSON value.                                        *)
(***************************************************************************)
Space == [t |-> "ws"]
Fence(tag) == [t |-> "fence", tag |-> tag]
Prose == [t |-> "word"]
Json(value) == [t |-> "json", v |-> value]

NotSpaceToken(tok) == tok.t # "ws"

\* json.loads(text): the value of a text that is one JSON value, with
\* whitespace allowed around it; JSONDecodeError for any other text.
JsonLoads(text) ==
    LET core == SelectSeq(text, NotSpaceToken)
    IN  IF Len(core) = 1 /\ core[1].t = "json"
        THEN Returned(core[1].v)
        ELSE Raised(Exc("JSONDecodeError", Str("Expecting value")))

(***************************************************************************)
(* analyze_claim                                                           *)
(***************************************************************************)
Min(a, b) == IF a < b THEN a ELSE b
Max(a, b) == IF a > b THEN a ELSE b

Recommendations == {Str("APPROVE"), Str("REVIEW"), Str("DENY")}

Verdict(score, recommendation, reasoning) ==
    [risk_score |-> IntV(score),
     recommendation |-> StrV(recommendation),
     reasoning |-> StrV(reasoning)]

\* The clamp with its lower bound forgotten
ClampAbove(risk_score) == Min(MaxScore, risk_score)

\* max(0, min(100, risk_score))
Clamp(risk_score) == Max(MinScore, Min(MaxScore, risk_score))

\* A sanitiser that turns an unrecognised recommendation into a denial
SanitizeToDeny(recommendation) ==
    IF recommendation \notin Recommendations THEN Str("DENY") ELSE recommendation

\* if recommendation not in ['APPROVE', 'REVIEW', 'DENY']: recommendation = 'REVIEW'
Sanitize(recommendation) ==
    IF recommendation \notin Recommendations THEN Str("REVIEW") ELSE recommendation

\* str(...)[:1000]
Truncate(reasoning) == Take(reasoning, ReasoningLimit)

\* The parse fallback without its reasoning
ParseFallbackPartial ==
    [risk_score |-> IntV(DefaultScore), recommendation |-> StrV(Str("REVIEW"))]

\* The verdict of the except json.JSONDecodeError branch
ParseFallback ==
    Verdict(DefaultScore, Str("REVIEW"),
            Str("Unable to parse model response. Please review manually."))

\* The outer except answering as the handler's own error responses do
ErrorVerdictAsError(e) ==
    [error |-> StrV(e.msg),
     risk_score |-> IntV(0),
     recommendation |-> StrV(Str("ERROR")),
     reasoning |-> StrV(Str("System error occurred: ") \o e.msg)]

\* The verdict of the outer except Exception branch
ErrorVerdict(e) ==
    [error |-> StrV(e.msg),
     risk_score |-> IntV(DefaultScore),
     recommendation |-> StrV(Str("REVIEW")),
     reasoning |-> StrV(Str("System error occurred: ") \o e.msg)]

\* The inner try block: the verdict returned, or the exception that leaves
\* it (every exception but JSONDecodeError).
Normalize(text) ==
    LET loaded == JsonLoads(text)
    IN  IF loaded.t = "raise" THEN Returned(ParseFallback)
        ELSE
        LET parsed == loaded.v
        IN  IF parsed.t # "dict" THEN Raised(NoAttribute(parsed, "get"))
            ELSE
            LET score == PyInt(Get(parsed, "risk_score", IntV(DefaultScore)))
                recommendation == Get(parsed, "recommendation", StrV(Str("REVIEW")))
                reasoning == Get(parsed, "reasoning", StrV(Str("No reasoning provided")))
            IN  IF score.t = "raise" THEN Raised(score.exc)
                ELSE IF recommendation.t # "str"
                THEN Raised(NoAttribute(recommendation, "upper"))
                ELSE Returned(Verdict(Clamp(score.v),
                                      Sanitize(Upper(recommendation.v)),
                                      Truncate(PyStr(reasoning))))

\* analyze_claim, given what the client did: it raised, or it returned a
\* response whose text is None or a text.
AnalyzeClaim(called) ==
    IF called.t = "raise" THEN ErrorVerdict(called.exc)
    ELSE IF called.v.t = "None" THEN ErrorVerdict(NoAttribute(None, "strip"))
    ELSE LET normalized == Normalize(StripBy(called.v.v, {Space}))
         IN  IF normalized.t = "raise" THEN ErrorVerdict(normalized.exc)
             ELSE normalized.v

(***************************************************************************)
(* The upload, the temp file and extract_text_from_pdf                     *)
(***************************************************************************)
\* A PDF with the text of each of its pages, or bytes PyPDF2 cannot read
Pdf(pages) == [t |-> "pdf", pages |-> pages]
NotPdf == [t |-> "bytes"]

\* werkzeug's secure_filename: path separators become spaces, whitespace
\* runs join with "_", characters outside [A-Za-z0-9_.-] are dropped, and
\* leading and trailing dots and underscores are stripped.
RECURSIVE JoinWords(_)
JoinWords(s) ==
    IF s = <<>> THEN <<>>
    ELSE IF IsSpace(s[1])
         THEN (IF Len(s) > 1 /\ IsSpace(s[2]) THEN <<>> ELSE <<"_">>) \o JoinWords(Tail(s))
         ELSE <<s[1]>> \o JoinWords(Tail(s))

IsSafeChar(c) ==
    \/ IndexIn(c, LowerAlphabet) > 0
    \/ IndexIn(c, UpperAlphabet) > 0
    \/ IndexIn(c, Digits) > 0
    \/ c \in {"_", ".", "-"}

SecureFilename(name) ==
    LET spaced == [i \in 1..Len(name) |-> IF name[i] = "/" THEN " " ELSE name[i]]
    IN  StripBy(SelectSeq(JoinWords(Strip(spaced)), IsSafeChar), {".", "_"})

\* os.path.join(temp_dir, f"{datetime.now().timestamp()}_{filename}")
TempPath(now, filename) == [t |-> "path", ts |-> now, name |-> filename]

Exists(files, path) == path \in DOMAIN files

\* The text of the pages: each non-empty page text and a newline
RECURSIVE PagesText(_)
PagesText(pages) ==
    IF pages = <<>> THEN <<>>
    ELSE (IF pages[1] # <<>> THEN pages[1] \o <<"\n">> ELSE <<>>) \o PagesText(Tail(pages))

\* What opening and reading the file at pdf_path does
ReadPdf(files, pdf_path) ==
    IF ~Exists(files, pdf_path)
    THEN Raised(Exc("FileNotFoundError", Str("[Errno 2] No such file or directory")))
    ELSE IF files[pdf_path].doc.t # "pdf"
    THEN Raised(Exc("PdfReadError", Str("EOF marker not found")))
    ELSE Returned(PagesText(files[pdf_path].doc.pages))

\* The extraction without its test for empty text
ExtractAnyText(files, pdf_path) ==
    LET read == ReadPdf(files, pdf_path)
    IN  IF read.t = "raise" THEN Str("Error: ") \o read.exc.msg ELSE read.v

\* extract_text_from_pdf
ExtractTextFromPdf(files, pdf_path) ==
    LET read == ReadPdf(files, pdf_path)
    IN  IF read.t = "raise" THEN Str("Error: ") \o read.exc.msg
        ELSE IF Strip(read.v) = <<>>
        THEN Str("Error: No text could be extracted from PDF")
        ELSE read.v

(***************************************************************************)
(* The inputs the model draws from.                                        *)
(***************************************************************************)
Filenames ==
    {Str(""), Str("notes.txt"), Str("claimpdf"), Str("claim.pdf"), Str("My Claim.PDF")}

Documents ==
    {Pdf(<<Str("Claim 42: water damage")>>),
     Pdf(<<>>),
     Pdf(<<Str(""), Str("  ")>>),
     Pdf(<<Str("Error codes of the boiler")>>),
     NotPdf}

\* A request with no file part carries no filename and no document.
Uploads ==
    {[hasFile |-> FALSE, filename |-> <<>>, doc |-> NotPdf]}
        \cup [hasFile : {TRUE}, filename : Filenames, doc : Documents]

LongText(n) == Rep("a", n)

\* The request of the reply-by-reply specification: one readable PDF
ClaimUpload ==
    [hasFile |-> TRUE, filename |-> Str("claim.pdf"),
     doc |-> Pdf(<<Str("Claim 42: water damage")>>)]

ScoreValues ==
    {IntV(0 - 5), IntV(0), IntV(42), IntV(100), IntV(150), FloatV(759), BoolV(TRUE),
     StrV(Str("75")), StrV(Str("abc")), StrV(LongText(ReasoningLimit + MaxExcess)), None}

RecommendationValues ==
    {StrV(Str("approve")), StrV(Str("APPROVE")), StrV(Str("Deny")), StrV(Str("REVIEW")),
     StrV(Str("maybe")), IntV(7), None}

ReasoningValues ==
    {StrV(Str("x")), StrV(LongText(ReasoningLimit)),
     StrV(LongText(ReasoningLimit + MaxExcess)), IntV(7), None}

\* The fields of a JSON object: each key absent, or present with a value
Field(key, values) == {<<>>} \cup {key :> v : v \in values}

ObjectsOf(scores, recommendations, reasonings) ==
    {DictV(a @@ b @@ c) : a \in Field("risk_score", scores),
                          b \in Field("recommendation", recommendations),
                          c \in Field("reasoning", reasonings)}

\* JSON values that are no object
Scalars == {ListV(<<>>), IntV(5), StrV(Str("DENY")), BoolV(TRUE), None}

\* The texts a reply can be: a JSON value bare, padded with whitespace or
\* wrapped in a code fence; prose; nothing.
TextsOf(values) ==
    {<<Json(j)>> : j \in values}
        \cup {<<Space, Json(j), Space>> : j \in values}
        \cup {<<Fence("json"), Space, Json(j), Space, Fence("")>> : j \in values}
        \cup {<<>>, <<Prose, Prose>>, <<Prose, Json(IntV(5))>>}

ClientErrors ==
    {Exc("ServerError", Str("503 UNAVAILABLE")),
     Exc("ReadTimeout", Str("The read operation timed out")),
     Exc("ClientError", LongText(ReasoningLimit))}

\* What client.models.generate_content does: it raises, or it returns a
\* response whose text is None or a text.
OutcomesOf(values) ==
    {Raised(e) : e \in ClientErrors}
        \cup {Returned(None)}
        \cup {Returned(StrV(text)) : text \in TextsOf(values)}

\* Every sampled reply, for the reply-by-reply specification
JsonObjects == ObjectsOf(ScoreValues, RecommendationValues, ReasoningValues)
ModelOutcomes == OutcomesOf(JsonObjects \cup Scalars)

\* A few replies of each kind, for the specification of the whole handler
SampleObjects ==
    ObjectsOf({IntV(42), IntV(150), None},
              {StrV(Str("Deny")), StrV(Str("maybe"))},
              {StrV(Str("x"))})
SampleOutcomes == OutcomesOf(SampleObjects \cup {ListV(<<>>)})

SaveErrors == {Exc("OSError", Str("[Errno 28] No space left on device"))}

(***************************************************************************)
(* The /analyze handler, one instance per request.  pc is the state the    *)
(* request is in: idle (not yet arrived), received, validated, stored,     *)
(* extracted, calling (inside the model call), finally (the response is    *)
(* built and the finally block is still to run), responded.                *)
(***************************************************************************)
Entry(level, event, detail) == [level |-> level, event |-> event, detail |-> detail]

\* The body of the handler's own error responses
ErrorBody(error, reasoning) ==
    [error |-> StrV(error),
     risk_score |-> IntV(0),
     recommendation |-> StrV(Str("ERROR")),
     reasoning |-> StrV(reasoning)]

\* datetime.now().isoformat()
IsoFormat(now) == NatStr(now)

\* What analyze_claim writes to the log
AnalyzeClaimLog(called) ==
    <<Entry("info", "Calling Gemini API for claim analysis...", <<>>)>> \o
    (IF called.t = "raise"
     THEN <<Entry("error", "Error during claim analysis", called.exc.msg)>>
     ELSE IF called.v.t = "None"
     THEN <<Entry("error", "Error during claim analysis", NoAttribute(None, "strip").msg)>>
     ELSE LET text == StripBy(called.v.v, {Space})
              normalized == Normalize(text)
          IN  <<Entry("info", "Received response from API", <<>>)>> \o
              (IF normalized.t = "raise"
               THEN <<Entry("error", "Error during claim analysis", normalized.exc.msg)>>
               ELSE IF JsonLoads(text).t = "raise"
               THEN <<Entry("error", "JSON decode error", JsonLoads(text).exc.msg)>>
               ELSE <<>>))

Init ==
    /\ pc = [r \in Requests |-> "idle"]
    /\ request = [r \in Requests |-> None]
    /\ filepath = [r \in Requests |-> None]
    /\ fs = <<>>
    /\ clock = 0
    /\ claim_text = [r \in Requests |-> None]
    /\ outcome = [r \in Requests |-> None]
    /\ response = [r \in Requests |-> None]
    /\ steps = [r \in Requests |-> <<>>]
    /\ log = [r \in Requests |-> <<>>]

\* return jsonify(body), status: the response is built, the finally block is next
Return(r, status, body) ==
    /\ response' = [response EXCEPT ![r] = [t |-> "response", status |-> status, body |-> body]]
    /\ pc' = [pc EXCEPT ![r] = "finally"]

Did(r, step) == steps' = [steps EXCEPT ![r] = Append(@, step)]
Logged(r, entries) == log' = [log EXCEPT ![r] = @ \o entries]

\* Time passes
Tick ==
    /\ clock < MaxClock
    /\ clock' = clock + 1
    /\ UNCHANGED <<pc, request, filepath, fs, claim_text, outcome, response, steps, log>>

\* A POST /analyze arrives
Receive(r, uploads) ==
    /\ pc[r] = "idle"
    /\ \E upload \in uploads : request' = [request EXCEPT ![r] = upload]
    /\ pc' = [pc EXCEPT ![r] = "received"]
    /\ UNCHANGED <<filepath, fs, clock, claim_text, outcome, response, steps, log>>

\* The suffix test without its dot
IsPdfNameNoDot(filename) == EndsWith(Lower(filename), Str("pdf"))

\* file.filename.lower().endswith('.pdf')
IsPdfName(filename) == EndsWith(Lower(filename), Str(".pdf"))

\* The three checks of the upload
Validate(r) ==
    /\ pc[r] = "received"
    /\ Did(r, "validate")
    /\ IF ~request[r].hasFile
       THEN /\ Return(r, 400, ErrorBody(Str("No file uploaded"), Str("Please upload a PDF file")))
            /\ Logged(r, <<Entry("warning", "No file provided in request", <<>>)>>)
       ELSE IF request[r].filename = <<>>
       THEN /\ Return(r, 400, ErrorBody(Str("Empty filename"), Str("No file selected")))
            /\ UNCHANGED log
       ELSE IF ~IsPdfName(request[r].filename)
       THEN /\ Return(r, 400,
                      ErrorBody(Str("Invalid file type"), Str("Only PDF files are supported")))
            /\ UNCHANGED log
       ELSE /\ pc' = [pc EXCEPT ![r] = "validated"]
            /\ UNCHANGED <<response, log>>
    /\ UNCHANGED <<request, filepath, fs, clock, claim_text, outcome>>

\* The except branch answering with the error alone
UnexpectedBare(r, e) ==
    /\ Return(r, 500, [error |-> StrV(e.msg)])
    /\ Logged(r, <<Entry("info", "Processing file", <<>>),
                   Entry("error", "Unexpected error in /analyze", e.msg)>>)

\* The except Exception branch of the handler
Unexpected(r, e) ==
    /\ Return(r, 500, ErrorBody(e.msg, Str("System error: ") \o e.msg))
    /\ Logged(r, <<Entry("info", "Processing file", <<>>),
                   Entry("error", "Unexpected error in /analyze", e.msg)>>)

\* The temp path is built and file.save(filepath) writes the upload there,
\* or raises with nothing or a truncated file written.
Store(r) ==
    /\ pc[r] = "validated"
    /\ Did(r, "store")
    /\ LET path == TempPath(clock, SecureFilename(request[r].filename))
       IN  /\ filepath' = [filepath EXCEPT ![r] = path]
           /\ \/ /\ fs' = (path :> [owner |-> r, doc |-> request[r].doc]) @@ fs
                  /\ pc' = [pc EXCEPT ![r] = "stored"]
                  /\ Logged(r, <<Entry("info", "Processing file", <<>>)>>)
                  /\ UNCHANGED response
              \/ \E e \in SaveErrors :
                    /\ \/ fs' = fs
                       \/ fs' = (path :> [owner |-> r, doc |-> NotPdf]) @@ fs
                    /\ Unexpected(r, e)
    /\ UNCHANGED <<request, clock, claim_text, outcome>>

\* A handler that takes only the marker "Error: " for a failed extraction
ExtractByMarker(r) ==
    /\ pc[r] = "stored"
    /\ Did(r, "extract")
    /\ LET text == ExtractTextFromPdf(fs, filepath[r])
           read == ReadPdf(fs, filepath[r])
           raised == IF read.t = "raise"
                     THEN <<Entry("error", "PDF extraction error", read.exc.msg)>>
                     ELSE <<>>
       IN  /\ claim_text' = [claim_text EXCEPT ![r] = StrV(text)]
           /\ IF StartsWith(text, Str("Error: "))
              THEN /\ Return(r, 200, ErrorBody(Str("PDF processing failed"), text))
                   /\ Logged(r, raised \o <<Entry("error", "PDF extraction failed", text)>>)
              ELSE /\ pc' = [pc EXCEPT ![r] = "extracted"]
                   /\ Logged(r, raised)
                   /\ UNCHANGED response
    /\ UNCHANGED <<request, filepath, fs, clock, outcome>>

\* extract_text_from_pdf(filepath) and the test of its result
Extract(r) ==
    /\ pc[r] = "stored"
    /\ Did(r, "extract")
    /\ LET text == ExtractTextFromPdf(fs, filepath[r])
           read == ReadPdf(fs, filepath[r])
           raised == IF read.t = "raise"
                     THEN <<Entry("error", "PDF extraction error", read.exc.msg)>>
                     ELSE <<>>
       IN  /\ claim_text' = [claim_text EXCEPT ![r] = StrV(text)]
           /\ IF StartsWith(text, Str("Error"))
              THEN /\ Return(r, 200, ErrorBody(Str("PDF processing failed"), text))
                   /\ Logged(r, raised \o <<Entry("error", "PDF extraction failed", text)>>)
              ELSE /\ pc' = [pc EXCEPT ![r] = "extracted"]
                   /\ Logged(r, raised)
                   /\ UNCHANGED response
    /\ UNCHANGED <<request, filepath, fs, clock, outcome>>

\* A handler that calls the model again while a call is under way
CallModelAgain(r) ==
    /\ pc[r] \in {"extracted", "calling"}
    /\ Len(steps[r]) < 5
    /\ Did(r, "analyze")
    /\ pc' = [pc EXCEPT ![r] = "calling"]
    /\ UNCHANGED <<request, filepath, fs, clock, claim_text, outcome, response, log>>

\* analyze_claim is entered and the client is called
CallModel(r) ==
    /\ pc[r] = "extracted"
    /\ Did(r, "analyze")
    /\ pc' = [pc EXCEPT ![r] = "calling"]
    /\ UNCHANGED <<request, filepath, fs, clock, claim_text, outcome, response, log>>

\* The client raises or returns; analyze_claim returns its verdict, and the
\* handler adds filename, processed_at and model to it.
ModelReturns(r, outcomes) ==
    /\ pc[r] = "calling"
    /\ \E called \in outcomes :
          /\ outcome' = [outcome EXCEPT ![r] = called]
          /\ Return(r, 200,
                    AnalyzeClaim(called) @@
                        [filename |-> StrV(filepath[r].name),
                         processed_at |-> StrV(IsoFormat(clock)),
                         model |-> StrV(Str("fine-tuned-gemini"))])
          /\ Logged(r, AnalyzeClaimLog(called) \o <<Entry("info", "Analysis complete", <<>>)>>)
    /\ UNCHANGED <<request, filepath, fs, clock, claim_text, steps>>

\* A remove that removes nothing
RemoveNothing(files, path) == files

\* os.remove(path): the file is gone
Remove(files, path) == [p \in DOMAIN files \ {path} |-> files[p]]

\* A finally block that lets the failure of the delete out of the handler
CleanupRaises(r) ==
    /\ pc[r] = "finally"
    /\ Did(r, "respond")
    /\ IF filepath[r] # None /\ Exists(fs, filepath[r])
       THEN \/ /\ fs' = Remove(fs, filepath[r])
               /\ Logged(r, <<Entry("info", "Cleaned up temp file", <<>>)>>)
               /\ UNCHANGED response
            \/ /\ fs' = fs
               /\ UNCHANGED log
               /\ response' = [response EXCEPT ![r] =
                       [t |-> "response", status |-> 500,
                        body |-> [error |-> StrV(Str("[Errno 13] Permission denied"))]]]
       ELSE UNCHANGED <<fs, log, response>>
    /\ pc' = [pc EXCEPT ![r] = "responded"]
    /\ UNCHANGED <<request, filepath, clock, claim_text, outcome>>

\* The finally block, and the response goes out
Cleanup(r) ==
    /\ pc[r] = "finally"
    /\ Did(r, "respond")
    /\ IF filepath[r] # None /\ Exists(fs, filepath[r])
       THEN \/ /\ fs' = Remove(fs, filepath[r])
               /\ Logged(r, <<Entry("info", "Cleaned up temp file", <<>>)>>)
            \/ /\ fs' = fs
               /\ Logged(r, <<Entry("warning", "Could not remove temp file",
                                    Str("[Errno 13] Permission denied"))>>)
       ELSE UNCHANGED <<fs, log>>
    /\ pc' = [pc EXCEPT ![r] = "responded"]
    /\ UNCHANGED <<request, filepath, clock, claim_text, outcome, response>>

Handler(r, uploads, outcomes) ==
    \/ Receive(r, uploads)
    \/ Validate(r)
    \/ Store(r)
    \/ Extract(r)
    \/ CallModel(r)
    \/ ModelReturns(r, outcomes)
    \/ Cleanup(r)

\* One request, any upload, a few replies of each kind, the clock running
Next == Tick \/ Handler("r1", Uploads, SampleOutcomes)

Spec == Init /\ [][Next]_vars

\* One request with a readable PDF, every sampled reply
NextReplies == Handler("r1", {ClaimUpload}, ModelOutcomes)

SpecReplies == Init /\ [][NextReplies]_vars

\* One request, any upload, every sampled reply
NextAll == Handler("r1", Uploads, ModelOutcomes)

SpecAll == Init /\ [][NextAll]_vars

\* Two requests at once: uploads under one name or two, with different
\* documents, and one reply or one failure of the client
ConcurrentUploads ==
    [hasFile : {TRUE},
     filename : {Str("claim.pdf"), Str("My Claim.PDF")},
     doc : {Pdf(<<Str("Claim 42: water damage")>>), Pdf(<<Str("Claim 7: stolen bicycle")>>)}]

ConcurrentOutcomes ==
    {Raised(Exc("ServerError", Str("503 UNAVAILABLE"))),
     Returned(StrV(<<Json(DictV([risk_score |-> IntV(42),
                                 recommendation |-> StrV(Str("Deny")),
                                 reasoning |-> StrV(Str("x"))]))>>))}

\* The server handles requests in parallel: the steps of the two handlers
\* interleave, and both read the same clock and write the same folder.
NextConcurrent ==
    Tick \/ \E r \in Requests : Handler(r, ConcurrentUploads, ConcurrentOutcomes)

SpecConcurrent == Init /\ [][NextConcurrent]_vars

\* The steps the handler's own thread takes: once a request is being
\* handled the code runs on to its next statement.  The reply of the model
\* endpoint is not among them: the client is built with no timeout and
\* generate_content blocks until the endpoint answers or the call fails.
HandlerSteps ==
    \E r \in Requests : Validate(r) \/ Store(r) \/ Extract(r) \/ CallModel(r) \/ Cleanup(r)

\* One request with a PDF, one reply or one failure of the client
NextFair == Tick \/ Handler("r1", ConcurrentUploads, ConcurrentOutcomes)

\* The handler scheduled fairly; the endpoint may never answer
SpecFair == Init /\ [][NextFair]_vars /\ WF_vars(HandlerSteps)

(***************************************************************************)
(* The claims.                                                             *)
(***************************************************************************)
CoreFields == {"risk_score", "recommendation", "reasoning"}

HasResponse(r) == response[r] # None
Body(r) == response[r].body
Status(r) == response[r].status
Performed(r, step) == \E i \in 1..Len(steps[r]) : steps[r][i] = step
LoggedEvent(r, event) == \E i \in 1..Len(log[r]) : log[r][i].event = event

\* The client returned a response that has a text
Replied(r) == outcome[r].t = "return" /\ outcome[r].v.t = "str"
\* ... and the text is one JSON value, with at most whitespace around it
ReplyIsJson(r) ==
    /\ Replied(r)
    /\ Len(SelectSeq(outcome[r].v.v, NotSpaceToken)) = 1
    /\ SelectSeq(outcome[r].v.v, NotSpaceToken)[1].t = "json"
ReplyValue(r) == SelectSeq(outcome[r].v.v, NotSpaceToken)[1].v
ReplyIsObject(r) == ReplyIsJson(r) /\ ReplyValue(r).t = "dict"
ReplyHas(r, key, type) ==
    /\ ReplyIsObject(r)
    /\ key \in DOMAIN ReplyValue(r).v
    /\ ReplyValue(r).v[key].t = type

\* C1: for every reply of the model (a JSON object, JSON of another type,
\* fenced JSON, prose, fields missing or of the wrong type, no text at all)
\* analyze_claim returns, the request is answered 200, and the verdict has
\* all three fields: risk_score an integer in 0..100, recommendation one of
\* APPROVE, REVIEW, DENY, reasoning a string of at most 1000 characters.
C1_VerdictInvariants ==
    \A r \in Requests :
        (outcome[r].t = "return") =>
            /\ HasResponse(r)
            /\ Status(r) = 200
            /\ CoreFields \subseteq DOMAIN Body(r)
            /\ Body(r).risk_score.t = "int"
            /\ Body(r).risk_score.v >= 0
            /\ Body(r).risk_score.v <= 100
            /\ Body(r).recommendation.t = "str"
            /\ Body(r).recommendation.v \in {Str("APPROVE"), Str("REVIEW"), Str("DENY")}
            /\ Body(r).reasoning.t = "str"
            /\ Len(Body(r).reasoning.v) <= 1000

\* A reply with a score above 100, an unknown recommendation and a
\* reasoning longer than 1000 characters was normalised and answered.
C1_Witness ==
    \E r \in Requests :
        /\ pc[r] = "responded"
        /\ ReplyHas(r, "risk_score", "int")
        /\ ReplyValue(r).v["risk_score"].v > 100
        /\ ReplyHas(r, "recommendation", "str")
        /\ ReplyValue(r).v["recommendation"].v = Str("maybe")
        /\ ReplyHas(r, "reasoning", "str")
        /\ Len(ReplyValue(r).v["reasoning"].v) > 1000
        /\ Body(r).risk_score.v = 100
        /\ Len(Body(r).reasoning.v) = 1000

\* The upload of r is one the validation rejects: no file part, an empty
\* filename, or a filename that does not end in .pdf in any letter case.
Rejected(r) ==
    /\ request[r] # None
    /\ \/ ~request[r].hasFile
       \/ request[r].filename = <<>>
       \/ ~EndsWith(Lower(request[r].filename), Str(".pdf"))

OwnsFile(r) == \E p \in DOMAIN fs : fs[p].owner = r

\* C2, as claimed: once the call has returned, no file exists at the temp
\* path the call used, on whatever path it returned and also when the
\* delete itself failed.
C2_NoFileAfterReturn ==
    \A r \in Requests :
        (pc[r] = "responded" /\ filepath[r] # None) => ~Exists(fs, filepath[r])

\* C2, amended: once the call has returned, the file the call stored is no
\* longer at its temp path, unless the delete itself failed; then the file
\* stays and the failure is logged as a warning.
C2_NoFileUnlessDeleteFailed ==
    \A r \in Requests :
        (/\ pc[r] = "responded"
         /\ filepath[r] # None
         /\ Exists(fs, filepath[r])
         /\ fs[filepath[r]].owner = r)
            => LoggedEvent(r, "Could not remove temp file")

\* A call stored its upload, extracted it, was answered, and the file is gone.
C2_Witness ==
    \E r \in Requests :
        /\ pc[r] = "responded"
        /\ Performed(r, "store")
        /\ Performed(r, "extract")
        /\ filepath[r] # None
        /\ ~Exists(fs, filepath[r])
        /\ LoggedEvent(r, "Cleaned up temp file")

\* C3: a request with no file part, an empty filename or a filename not
\* ending in .pdf (in any letter case) is answered 400, and it never stores
\* a temp file, never extracts text and never calls the model.
C3_RejectedUpload ==
    \A r \in Requests :
        Rejected(r) =>
            /\ pc[r] \in {"received", "finally", "responded"}
            /\ (pc[r] # "received") => (HasResponse(r) /\ Status(r) = 400)
            /\ filepath[r] = None
            /\ ~OwnsFile(r)
            /\ claim_text[r] = None
            /\ outcome[r] = None
            /\ ~Performed(r, "store")
            /\ ~Performed(r, "extract")
            /\ ~Performed(r, "analyze")

\* An upload named notes.txt was answered 400.
C3_Witness ==
    \E r \in Requests :
        /\ pc[r] = "responded"
        /\ request[r].hasFile
        /\ request[r].filename = Str("notes.txt")
        /\ Status(r) = 400

\* The document of r yields no text: it is unreadable, or every page text
\* is empty or whitespace.
Unreadable(r) == request[r].doc.t # "pdf"
Blank(r) ==
    /\ request[r].doc.t = "pdf"
    /\ \A i \in 1..Len(request[r].doc.pages) :
          \A j \in 1..Len(request[r].doc.pages[i]) :
              request[r].doc.pages[i][j] \in {" ", "\n", "\t"}

\* C4: when the extraction of a validated request fails or finds only
\* empty or whitespace text, the response is 200 with recommendation ERROR,
\* risk_score 0 and the extraction error as reasoning, and the model is not
\* called in that request.
C4_ExtractionFailure ==
    \A r \in Requests :
        (Performed(r, "extract") /\ (Unreadable(r) \/ Blank(r))) =>
            /\ HasResponse(r)
            /\ Status(r) = 200
            /\ Body(r).recommendation = StrV(Str("ERROR"))
            /\ Body(r).risk_score = IntV(0)
            /\ Body(r).reasoning = claim_text[r]
            /\ Unreadable(r) => Body(r).reasoning = StrV(Str("Error: EOF marker not found"))
            /\ Blank(r) =>
                  Body(r).reasoning = StrV(Str("Error: No text could be extracted from PDF"))
            /\ ~Performed(r, "analyze")
            /\ outcome[r] = None

\* A PDF whose pages hold only whitespace was answered with the ERROR verdict.
C4_Witness ==
    \E r \in Requests :
        /\ pc[r] = "responded"
        /\ Blank(r)
        /\ request[r].doc.pages # <<>>
        /\ Performed(r, "extract")
        /\ Body(r).recommendation = StrV(Str("ERROR"))

\* C5: when the client raises a transport or API error in a request that
\* passed validation and extraction, the request is answered 200 with
\* risk_score 50, recommendation REVIEW and a reasoning that says a system
\* error occurred.
C5_TransportErrorDegrades ==
    \A r \in Requests :
        (outcome[r].t = "raise") =>
            /\ Performed(r, "extract")
            /\ HasResponse(r)
            /\ Status(r) = 200
            /\ Body(r).risk_score = IntV(50)
            /\ Body(r).recommendation = StrV(Str("REVIEW"))
            /\ Body(r).reasoning.t = "str"
            /\ StartsWith(Body(r).reasoning.v, Str("System error occurred: "))
            /\ Len(Body(r).reasoning.v) > Len(Str("System error occurred: "))

\* The model call timed out and the request was answered.
C5_Witness ==
    \E r \in Requests :
        /\ pc[r] = "responded"
        /\ outcome[r].t = "raise"
        /\ outcome[r].exc.type = "ReadTimeout"
        /\ Status(r) = 200

\* C6, as claimed: an unexpected exception in the pipeline is answered with
\* a server error that carries the three core fields and recommendation
\* REVIEW.
C6_UnexpectedIsReview ==
    \A r \in Requests :
        LoggedEvent(r, "Unexpected error in /analyze") =>
            /\ HasResponse(r)
            /\ Status(r) = 500
            /\ CoreFields \subseteq DOMAIN Body(r)
            /\ Body(r).recommendation = StrV(Str("REVIEW"))

\* C6, amended: an unexpected exception in the pipeline is answered 500
\* with the three core fields and an error field: risk_score 0,
\* recommendation ERROR, and a reasoning "System error: " followed by the
\* exception text.
C6_UnexpectedIsError ==
    \A r \in Requests :
        LoggedEvent(r, "Unexpected error in /analyze") =>
            /\ HasResponse(r)
            /\ Status(r) = 500
            /\ CoreFields \cup {"error"} \subseteq DOMAIN Body(r)
            /\ Body(r).risk_score = IntV(0)
            /\ Body(r).recommendation = StrV(Str("ERROR"))
            /\ Body(r).reasoning.t = "str"
            /\ StartsWith(Body(r).reasoning.v, Str("System error: "))
            /\ Body(r).reasoning.v = Str("System error: ") \o Body(r).error.v

\* Saving the upload raised and the request was answered.
C6_Witness ==
    \E r \in Requests :
        /\ pc[r] = "responded"
        /\ Performed(r, "store")
        /\ ~Performed(r, "extract")
        /\ LoggedEvent(r, "Unexpected error in /analyze")
        /\ Status(r) = 500

\* C7: every response of /analyze, whatever its status, has the fields
\* risk_score, recommendation and reasoning; the 400 and 500 responses and
\* the extraction-failure response have an error field besides.
C7_CoreFieldsAlways ==
    \A r \in Requests :
        HasResponse(r) =>
            /\ Status(r) \in {200, 400, 500}
            /\ CoreFields \subseteq DOMAIN Body(r)
            /\ \A k \in CoreFields : Body(r)[k].t \in {"int", "str"}
            /\ (Status(r) # 200 \/ ~Performed(r, "analyze")) => "error" \in DOMAIN Body(r)
            /\ (outcome[r].t = "raise") => "error" \in DOMAIN Body(r)

\* A reply that is no JSON was answered 200 with the parse fallback.
C7_Witness ==
    \E r \in Requests :
        /\ pc[r] = "responded"
        /\ Replied(r)
        /\ ~ReplyIsJson(r)
        /\ Status(r) = 200
        /\ "error" \notin DOMAIN Body(r)
        /\ Body(r).risk_score = IntV(50)

\* C8, as claimed: when the reply's text is not JSON, or is JSON whose
\* top-level value is no object, the verdict is exactly the fallback:
\* risk_score 50, recommendation REVIEW, reasoning "Unable to parse model
\* response. Please review manually."
C8_UnparsableIsFallback ==
    \A r \in Requests :
        (Replied(r) /\ ~ReplyIsObject(r)) =>
            /\ HasResponse(r)
            /\ Body(r).risk_score = IntV(50)
            /\ Body(r).recommendation = StrV(Str("REVIEW"))
            /\ Body(r).reasoning =
                  StrV(Str("Unable to parse model response. Please review manually."))

\* C9, as claimed: when the reply is a JSON object whose risk_score is an
\* integer v, the risk_score of the verdict is max(0, min(100, v)).
C9_ClampLaw ==
    \A r \in Requests :
        ReplyHas(r, "risk_score", "int") =>
            LET v == ReplyValue(r).v["risk_score"].v
            IN  /\ HasResponse(r)
                /\ Body(r).risk_score =
                      IntV(IF v < 0 THEN 0 ELSE IF v > 100 THEN 100 ELSE v)

\* C10, as claimed: when the reply is a JSON object whose recommendation is
\* a string, the recommendation of the verdict is that string upper-cased
\* when it is APPROVE, REVIEW or DENY, and REVIEW for every other string.
C10_EnumLaw ==
    \A r \in Requests :
        ReplyHas(r, "recommendation", "str") =>
            LET upper == Upper(ReplyValue(r).v["recommendation"].v)
            IN  /\ HasResponse(r)
                /\ Body(r).recommendation =
                      StrV(IF upper \in {Str("APPROVE"), Str("REVIEW"), Str("DENY")}
                           THEN upper ELSE Str("REVIEW"))

\* C11, as claimed: when the reply is a JSON object whose reasoning is a
\* string, the reasoning of the verdict is its first 1000 characters: a
\* prefix of length exactly 1000 of a longer string, and a string of at most
\* 1000 characters unchanged.
C11_TruncationLaw ==
    \A r \in Requests :
        ReplyHas(r, "reasoning", "str") =>
            LET given == ReplyValue(r).v["reasoning"].v
            IN  /\ HasResponse(r)
                /\ Body(r).reasoning.t = "str"
                /\ IF Len(given) > 1000
                   THEN /\ Len(Body(r).reasoning.v) = 1000
                        /\ Body(r).reasoning.v = SubSeq(given, 1, 1000)
                   ELSE Body(r).reasoning.v = given

\* The reply of r is a JSON object wrapped in a markdown code fence
ReplyIsFencedObject(r) ==
    /\ Replied(r)
    /\ Len(outcome[r].v.v) = 5
    /\ outcome[r].v.v[1] = Fence("json")
    /\ outcome[r].v.v[3].t = "json"
    /\ outcome[r].v.v[3].v.t = "dict"
    /\ outcome[r].v.v[5] = Fence("")

\* C12, as claimed: a reply that is a JSON object J wrapped in a markdown
\* code fence gets the verdict the bare reply J gets.
C12_FencedAsBare ==
    \A r \in Requests :
        ReplyIsFencedObject(r) =>
            LET bare == AnalyzeClaim(Returned(StrV(<<outcome[r].v.v[3]>>)))
            IN  /\ HasResponse(r)
                /\ \A k \in CoreFields \cup {"error"} :
                      /\ (k \in DOMAIN Body(r)) = (k \in DOMAIN bare)
                      /\ (k \in DOMAIN bare) => Body(r)[k] = bare[k]

\* What one field of a reply should become on its own: the reply's value
\* sanitised, or the field's default when the value is absent or malformed.
ScoreAlone(object) ==
    IF "risk_score" \notin DOMAIN object THEN 50
    ELSE LET converted == PyInt(object["risk_score"])
         IN  IF converted.t = "raise" THEN 50
             ELSE IF converted.v < 0 THEN 0
             ELSE IF converted.v > 100 THEN 100 ELSE converted.v

RecommendationAlone(object) ==
    IF "recommendation" \notin DOMAIN object THEN Str("REVIEW")
    ELSE IF object["recommendation"].t # "str" THEN Str("REVIEW")
    ELSE IF Upper(object["recommendation"].v) \in {Str("APPROVE"), Str("REVIEW"), Str("DENY")}
    THEN Upper(object["recommendation"].v)
    ELSE Str("REVIEW")

ReasoningAlone(object) ==
    IF "reasoning" \notin DOMAIN object THEN Str("No reasoning provided")
    ELSE Take(PyStr(object["reasoning"]), 1000)

\* C13, as claimed: when the reply is a JSON object, each field of the
\* verdict comes from the same field of the reply alone; an absent or
\* malformed field gets its own default (50, REVIEW, "No reasoning
\* provided") and the other two are still taken from the reply.
C13_FieldIndependence ==
    \A r \in Requests :
        ReplyIsObject(r) =>
            /\ HasResponse(r)
            /\ Body(r).risk_score = IntV(ScoreAlone(ReplyValue(r).v))
            /\ Body(r).recommendation = StrV(RecommendationAlone(ReplyValue(r).v))
            /\ Body(r).reasoning = StrV(ReasoningAlone(ReplyValue(r).v))

\* The request is between storing its upload and the end of its cleanup
UsesTempPath(r) == filepath[r] # None /\ pc[r] # "responded"

\* C14, as claimed: two requests running at the same time use distinct temp
\* paths, and a request that has stored its upload and not yet extracted it
\* still finds its own upload at its path: no other request has overwritten
\* or deleted it.
C14_DistinctTempPaths ==
    \A r \in Requests :
        /\ \A q \in Requests \ {r} :
              (UsesTempPath(r) /\ UsesTempPath(q)) => filepath[r] # filepath[q]
        /\ pc[r] = "stored" =>
              /\ Exists(fs, filepath[r])
              /\ fs[filepath[r]] = [owner |-> r, doc |-> request[r].doc]

\* C15, as claimed: every request that reaches the model call is eventually
\* answered, whether or not the model endpoint ever replies.
C15_CallEventuallyAnswered ==
    \A r \in Requests : (pc[r] = "calling") ~> (pc[r] = "responded")

\* The text s contains the text part
Contains(s, part) ==
    \E i \in 0..(Len(s) - Len(part)) : SubSeq(s, i + 1, i + Len(part)) = part

\* C16, as claimed: when the model client raised, no field of the response
\* body contains the text of the exception.
C16_NoExceptionText ==
    \A r \in Requests :
        (outcome[r].t = "raise") =>
            /\ HasResponse(r)
            /\ \A k \in DOMAIN Body(r) :
                  Body(r)[k].t = "str" => ~Contains(Body(r)[k].v, outcome[r].exc.msg)

\* The steps of a request, in the order of the pipeline
Pipeline == <<"validate", "store", "extract", "analyze", "respond">>

\* C17: the steps of one request are taken in the order validate, store,
\* extract, analyze, respond.  The i-th step taken is the i-th step of the
\* pipeline, or it is respond, which ends the request (the escape of a
\* failure); so no step is taken twice and none before the ones it follows.
\* A step is taken only if the step before it succeeded.  The model is
\* invoked at most once, and once the call has returned or raised, the
\* request never calls again and its outcome stays what it was.
C17_StepsInOrder ==
    /\ [](\A r \in Requests :
            /\ Len(steps[r]) <= Len(Pipeline)
            /\ \A i \in 1..Len(steps[r]) :
                  \/ steps[r][i] = Pipeline[i]
                  \/ steps[r][i] = "respond" /\ i = Len(steps[r])
            /\ Performed(r, "store") => pc[r] # "received" /\ ~Rejected(r)
            /\ Performed(r, "extract") =>
                  /\ LoggedEvent(r, "Processing file")
                  /\ ~LoggedEvent(r, "Unexpected error in /analyze")
            /\ Performed(r, "analyze") =>
                  /\ claim_text[r] # None
                  /\ ~StartsWith(claim_text[r].v, Str("Error"))
            /\ Cardinality({i \in 1..Len(steps[r]) : steps[r][i] = "analyze"}) <= 1
            /\ Cardinality({i \in 1..Len(log[r]) :
                               log[r][i].event = "Calling Gemini API for claim analysis..."}) <= 1
            /\ outcome[r] # None => Performed(r, "analyze"))
    /\ [][\A r \in Requests :
             outcome[r] # None =>
                 /\ outcome'[r] = outcome[r]
                 /\ steps'[r] \in {steps[r], Append(steps[r], "respond")}]_vars

\* C17 witness: a request went through all five steps, its one model call
\* failed, and it was answered without another call.
C17_Witness ==
    /\ pc["r1"] = "responded"
    /\ steps["r1"] = Pipeline
    /\ outcome["r1"].t = "raise"

\* The delete of the temp file was attempted: it succeeded or it failed
DeleteAttempted(r) ==
    LoggedEvent(r, "Cleaned up temp file") \/ LoggedEvent(r, "Could not remove temp file")

\* C18: a request answered after its upload was stored (whether it ended in
\* a verdict, an extraction failure, a failure of the model call or an
\* unexpected exception that left a file behind) has attempted to delete its
\* temp file.  A failed delete is logged as a warning and nothing else: the
\* finally block ends with the request answered, and the status and body
\* built before it are sent as they are, the same for a failed delete as
\* for a successful one.
C18_DeleteAttemptedOnEveryExit ==
    /\ [](\A r \in Requests :
            /\ (pc[r] = "responded" /\ Performed(r, "extract")) => DeleteAttempted(r)
            /\ \A i \in 1..Len(log[r]) :
                  log[r][i].event = "Could not remove temp file" =>
                      /\ log[r][i].level = "warning"
                      /\ i = Len(log[r])
                      /\ pc[r] = "responded")
    /\ [][\A r \in Requests :
             pc[r] = "finally" =>
                 /\ response'[r] = response[r]
                 /\ pc'[r] \in {"finally", "responded"}
                 /\ (pc'[r] = "responded" /\ OwnsFile(r)) =>
                        /\ Len(log'[r]) = Len(log[r]) + 1
                        /\ log'[r][Len(log'[r])].event \in
                               {"Cleaned up temp file", "Could not remove temp file"}]_vars

\* C18 witness: a request with a verdict was answered 200 although the
\* delete of its temp file failed.
C18_Witness ==
    /\ pc["r1"] = "responded"
    /\ outcome["r1"] # None
    /\ LoggedEvent("r1", "Could not remove temp file")
    /\ OwnsFile("r1")
    /\ Status("r1") = 200

\* C19: in every response the recommendation is APPROVE, REVIEW, DENY or
\* ERROR, and it is APPROVE or DENY only when the model call of this request
\* returned a reply that parsed as a JSON object whose recommendation is a
\* string that upper-cases to that value; a rejected upload, a failed
\* extraction, a failed model call, an unparsable or malformed reply and an
\* unexpected exception are all answered REVIEW or ERROR.
C19_DecisionOnlyFromModel ==
    \A r \in Requests :
        HasResponse(r) =>
            /\ "recommendation" \in DOMAIN Body(r)
            /\ Body(r).recommendation.t = "str"
            /\ Body(r).recommendation.v \in
                    {Str("APPROVE"), Str("DENY"), Str("REVIEW"), Str("ERROR")}
            /\ Body(r).recommendation.v \in {Str("APPROVE"), Str("DENY")} =>
                    /\ outcome[r].t = "return"
                    /\ ReplyHas(r, "recommendation", "str")
                    /\ Upper(ReplyValue(r).v["recommendation"].v) = Body(r).recommendation.v
                    /\ Status(r) = 200

\* C19 witness: a request answered DENY after the model replied "Deny"
C19_Witness ==
    /\ pc["r1"] = "responded"
    /\ ReplyHas("r1", "recommendation", "str")
    /\ ReplyValue("r1").v["recommendation"].v = Str("Deny")
    /\ Body("r1").recommendation = StrV(Str("DENY"))

\* The text extract_text_from_pdf returned to r begins with "Error"
TextBeginsWithError(r) ==
    claim_text[r] # None /\ StartsWith(claim_text[r].v, Str("Error"))

\* C20: the model is invoked in a request only when the upload passed
\* validation, was stored, and the extracted text does not begin with
\* "Error"; and a request that ended with all three true has invoked it.
\* A request whose extracted text begins with "Error", the genuine text of
\* the PDF included, is answered 200 with recommendation ERROR, risk_score
\* 0 and the text as reasoning, and the model is not called for it.
C20_ModelCalledIffTextNotError ==
    \A r \in Requests :
        /\ Performed(r, "analyze") =>
              /\ ~Rejected(r)
              /\ Performed(r, "validate") /\ Performed(r, "store") /\ Performed(r, "extract")
              /\ claim_text[r] # None
              /\ ~TextBeginsWithError(r)
        /\ (pc[r] \in {"finally", "responded"} /\ claim_text[r] # None
                /\ ~TextBeginsWithError(r)) =>
              Performed(r, "analyze") /\ outcome[r] # None
        /\ TextBeginsWithError(r) =>
              /\ ~Performed(r, "analyze")
              /\ outcome[r] = None
              /\ ~LoggedEvent(r, "Calling Gemini API for claim analysis...")
              /\ HasResponse(r)
              /\ Status(r) = 200
              /\ Body(r) = ErrorBody(Str("PDF processing failed"), claim_text[r].v)

\* C20 witness: a PDF whose own text begins with "Error" was read without
\* any failure and answered ERROR, without a model call.
C20_Witness ==
    /\ pc["r1"] = "responded"
    /\ request["r1"].doc = Pdf(<<Str("Error codes of the boiler")>>)
    /\ claim_text["r1"] = StrV(Str("Error codes of the boiler\n"))
    /\ ~LoggedEvent("r1", "PDF extraction error")
    /\ Body("r1").recommendation = StrV(Str("ERROR"))
    /\ ~Performed("r1", "analyze")

====
